---- MODULE Spec2Model ----
(***************************************************************************)
(* Event extraction and normalization pipeline of the calendar extractor:  *)
(* parsers.py (text path), parsers_general.py (general documents) and      *)
(* image_processor.py (image path, with the threaded timeout wrapper).     *)
(*                                                                         *)
(* Text is a sequence of one-character strings.  A timestamp is a number   *)
(* of hours counted from midnight of March 1st.  A JSON value is a record  *)
(* [k, v]: k is the JSON kind, v the characters of a string.               *)
(***************************************************************************)
EXTENDS Integers, Sequences, FiniteSets, TLC

VARIABLES
    \* --- one extraction call -------------------------------------------
    path,        \* "text" | "general" | "image": which entry point runs
    api_key,     \* GEMINI_API_KEY: "unset" | "empty" | "set"
    text,        \* the document text (text paths)
    base_date,   \* the base_date argument: "none" or a timestamp
    pc,          \* position of the calling thread in the entry point
    idx,         \* index in model_names of the current loop iteration
    tried,       \* the identifiers whose attempt has started, in order
    attempt,     \* attempt[i]: how the caller saw identifier i end
    worker,      \* worker[i]: the backend call made for identifier i
    cell,        \* cell[i]: result[0] / exception[0] of identifier i's call
    elapsed,     \* timeout_handler's elapsed counter (seconds)
    response,    \* the local variable response
    events,      \* the list returned to the caller
    outcome,     \* "running" | "returned" | "raised"
    \* --- one candidate through the normalizer --------------------------
    now,         \* datetime.now() of the run
    cand,        \* the candidate descriptor (event_raw)
    norm_pc,     \* "pending" | "done" | "again"
    norm_out,    \* what the loop body appended for cand
    again,       \* what the loop body appends for the serialized norm_out
    \* --- a batch of candidates through the normalizer loop --------------
    batch_in,    \* events_raw: the parsed array the loop iterates over
    raw_i,       \* position of the loop in batch_in
    batch_out,   \* the list events built by the loop
    \* --- create_events over the selected session events -----------------
    events_to_create,  \* the selected serialized events
    create_i,          \* position of the loop in events_to_create
    sent,              \* positions whose body reached the service's insert
    created_events,    \* positions appended to created_events
    \* --- the recurrence rule of create_google_event -----------------------
    days_str,          \* event.get("description", "").upper()
    rec_start,         \* start_dt of the recurring event
    found_days,        \* the weekday codes found so far
    rec_pc,            \* "compact" | "words" | "fallback" | "rule" | "idle"
    \* --- timeout_handler with any timeout_seconds -----------------------
    timeout_arg,       \* the argument timeout_seconds
    waited,            \* seconds since the caller started waiting
    \* --- uploads and create-events requests of several sessions ---------
    disk,              \* the upload folder: file name -> content
    session,           \* session[s]: the cookie session of browser s
    file_content       \* file_content[s]: what create_events of s read

pvars == <<path, api_key, text, base_date, pc, idx, tried, attempt, worker,
           cell, elapsed, response, events, outcome>>
nvars == <<now, cand, norm_pc, norm_out>>
zvars == <<days_str, rec_start, found_days, rec_pc, timeout_arg, waited,
           disk, session, file_content>>
xvars == <<again, batch_in, raw_i, batch_out,
           events_to_create, create_i, sent, created_events, zvars>>
vars  == <<path, api_key, text, base_date, pc, idx, tried, attempt, worker,
           cell, elapsed, response, events, outcome,
           now, cand, norm_pc, norm_out,
           again, batch_in, raw_i, batch_out,
           events_to_create, create_i, sent, created_events,
           days_str, rec_start, found_days, rec_pc, timeout_arg, waited,
           disk, session, file_content>>

\* No recurrence rule is being built
RecurIdle ==
    /\ days_str = <<>>
    /\ rec_start = 0
    /\ found_days = <<>>
    /\ rec_pc = "idle"

\* No caller waits in a timeout_handler of its own
TimeoutIdle ==
    /\ timeout_arg = 0
    /\ waited = 0

\* No browser session and no uploaded file
FilesIdle ==
    /\ disk = <<>>
    /\ session = <<>>
    /\ file_content = <<>>


---------------------------------------------------------------------------
(* Characters and strings                                                  *)

UpperChars == <<"A","B","C","D","E","F","G","H","I","J","K","L","M",
                "N","O","P","Q","R","S","T","U","V","W","X","Y","Z">>
LowerChars == <<"a","b","c","d","e","f","g","h","i","j","k","l","m",
                "n","o","p","q","r","s","t","u","v","w","x","y","z">>
DigitChars == <<"0","1","2","3","4","5","6","7","8","9">>

\* str.lower() on one character
lower_char(c) ==
    IF \E i \in 1..Len(UpperChars) : UpperChars[i] = c
    THEN LowerChars[CHOOSE i \in 1..Len(UpperChars) : UpperChars[i] = c]
    ELSE c

\* str.lower()
str_lower(s) == [i \in 1..Len(s) |-> lower_char(s[i])]

\* str.isdigit on one character
str_isdigit(c) == \E i \in 1..Len(DigitChars) : DigitChars[i] = c

\* str.isspace on one character
str_isspace(c) == c \in {" ", "\n", "\t"}

\* sub in s
str_contains(s, sub) ==
    \E i \in 0..(Len(s) - Len(sub)) :
        \A j \in 1..Len(sub) : s[i + j] = sub[j]

\* s.split()[0]: the first whitespace-delimited token of s (s has one)
str_split_first(s) ==
    LET first == CHOOSE i \in 1..Len(s) :
                    /\ ~str_isspace(s[i])
                    /\ \A j \in 1..(i - 1) : str_isspace(s[j])
        stop  == IF \E i \in first..Len(s) : str_isspace(s[i])
                 THEN (CHOOSE i \in first..Len(s) :
                          /\ str_isspace(s[i])
                          /\ \A j \in first..(i - 1) : ~str_isspace(s[j])) - 1
                 ELSE Len(s)
    IN  SubSeq(s, first, stop)

\* ''.join(filter(str.isdigit, s))
str_digits(s) == SelectSeq(s, str_isdigit)

digit_value(c) == (CHOOSE i \in 1..Len(DigitChars) : DigitChars[i] = c) - 1

\* float(s) for a string of decimal digits
RECURSIVE float_of_digits(_)
float_of_digits(s) ==
    IF s = <<>> THEN 0
    ELSE 10 * float_of_digits(SubSeq(s, 1, Len(s) - 1)) + digit_value(s[Len(s)])

---------------------------------------------------------------------------
(* JSON values and dictionaries                                            *)

JStr(s)  == [k |-> "str", v |-> s]
JAbsent  == [k |-> "absent", v |-> <<>>]   \* the key is not in the dict
JNull    == [k |-> "null", v |-> <<>>]
JNum     == [k |-> "num", v |-> <<"0">>]    \* the JSON number 0
JTrue    == [k |-> "bool", v |-> <<"t">>]
JFalse   == [k |-> "bool", v |-> <<"f">>]

\* dict.get(key, default)
dict_get(field, default) == IF field.k = "absent" THEN default ELSE field

s_event    == <<"e","v","e","n","t">>
s_task     == <<"t","a","s","k">>
s_meeting  == <<"m","e","e","t","i","n","g">>
s_Event    == <<"E","v","e","n","t">>
s_1hour    == <<"1"," ","h","o","u","r">>
s_0        == <<"0">>
s_none     == <<"n","o","n","e">>
s_hour     == <<"h","o","u","r">>
s_hr       == <<"h","r">>
s_mar5_2pm == <<"M","a","r"," ","5"," ","2","p","m">>
s_mar5     == <<"M","a","r"," ","5">>
s_mar4     == <<"M","a","r"," ","4">>
s_3pm      == <<"3","p","m">>
s_soon     == <<"s","o","o","n">>
s_None     == <<"N","o","n","e">>
s_2hours   == <<"2"," ","h","o","u","r","s">>
s_t2hours  == <<"~","2"," ","h","o","u","r","s">>
s_12hours  == <<"1","2"," ","h","o","u","r","s">>
s_1p5hours == <<"1",".","5"," ","h","o","u","r","s">>
s_hours    == <<"h","o","u","r","s">>
s_2hr      == <<"2","h","r">>
s_0hours   == <<"0"," ","h","o","u","r","s">>
s_Quiz     == <<"Q","u","i","z">>
s_Lab      == <<"L","a","b">>

---------------------------------------------------------------------------
(* The date parser (dateparser.parse with PREFER_DATES_FROM = future)      *)

DtOk(t)  == [ok |-> "dt", t |-> t]
DtNone   == [ok |-> "none", t |-> 0]
DtRaise  == [ok |-> "raise", t |-> 0]

\* The phrases the parser knows.  "yearless": a day (and hour) of the year,
\* val hours after March 1st 00:00; "time": an hour of the day.
DateTable ==
    { [txt |-> s_mar5_2pm, kind |-> "yearless", val |-> 110],
      [txt |-> s_mar5,     kind |-> "yearless", val |-> 96],
      [txt |-> s_mar4,     kind |-> "yearless", val |-> 72],
      [txt |-> s_3pm,      kind |-> "time",     val |-> 15] }

\* The future occurrence of a phrase, relative to the instant rel
prefer_future(d, rel) ==
    IF d.kind = "yearless"
    THEN IF d.val < rel THEN d.val + 365 * 24 ELSE d.val
    ELSE LET today == (rel \div 24) * 24 + d.val
         IN  IF today < rel THEN today + 24 ELSE today

\* Days of the months from March 2026 to February 2028: instant 0 is
\* 2026-03-01T00:00:00
MonthDays == << 31, 30, 31, 30, 31, 31, 30, 31, 30, 31, 31, 28,
                31, 30, 31, 30, 31, 31, 30, 31, 30, 31, 31, 29 >>

\* Calendar year and month of the k-th month of MonthDays
year_of_month(k)  == 2026 + ((k + 1) \div 12)
month_of_month(k) == ((k + 1) % 12) + 1

\* Days from instant 0 to the first day of the k-th month
RECURSIVE days_before(_)
days_before(k) == IF k = 1 THEN 0 ELSE days_before(k - 1) + MonthDays[k - 1]

\* n written with two, with four decimal digits
digits2(n) == << DigitChars[(n \div 10) + 1], DigitChars[(n % 10) + 1] >>
digits4(n) == digits2(n \div 100) \o digits2(n % 100)

\* The month of MonthDays that the instant t (in hours) falls in
month_index(t) ==
    CHOOSE k \in 1..Len(MonthDays) :
        /\ days_before(k) <= (t \div 24)
        /\ (t \div 24) < days_before(k) + MonthDays[k]

\* date.strftime('%Y-%m-%d')
isoformat_date_only(t) ==
    LET k == month_index(t)
    IN  digits4(year_of_month(k)) \o <<"-">> \o digits2(month_of_month(k))
           \o <<"-">> \o digits2((t \div 24) - days_before(k) + 1)

\* datetime.isoformat() of a datetime without microseconds or zone:
\* YYYY-MM-DDTHH:MM:SS
isoformat(t) ==
    LET k == month_index(t)
    IN  digits4(year_of_month(k)) \o <<"-">> \o digits2(month_of_month(k))
           \o <<"-">> \o digits2((t \div 24) - days_before(k) + 1)
           \o <<"T">> \o digits2(t % 24) \o <<":", "0", "0", ":", "0", "0">>

\* s[a..b] are decimal digits
all_digits(s, a, b) == \A i \in a..b : str_isdigit(s[i])

\* s is YYYY-MM-DD or YYYY-MM-DDTHH:00:00 of a day the calendar has
iso_date_shape(s) ==
    /\ Len(s) \in {10, 19}
    /\ all_digits(s, 1, 4) /\ s[5] = "-"
    /\ all_digits(s, 6, 7) /\ s[8] = "-"
    /\ all_digits(s, 9, 10)
    /\ Len(s) = 19 =>
          /\ s[11] = "T"
          /\ all_digits(s, 12, 13)
          /\ SubSeq(s, 14, 19) = <<":", "0", "0", ":", "0", "0">>
          /\ float_of_digits(SubSeq(s, 12, 13)) < 24

iso_months(s) ==
    { k \in 1..Len(MonthDays) :
        /\ year_of_month(k) = float_of_digits(SubSeq(s, 1, 4))
        /\ month_of_month(k) = float_of_digits(SubSeq(s, 6, 7))
        /\ float_of_digits(SubSeq(s, 9, 10)) \in 1..MonthDays[k] }

is_iso(s) == iso_date_shape(s) /\ iso_months(s) # {}

\* datetime.fromisoformat(s) of such a string, in hours from instant 0
fromisoformat(s) ==
    LET k == CHOOSE m \in iso_months(s) : TRUE
    IN  24 * (days_before(k) + float_of_digits(SubSeq(s, 9, 10)) - 1)
          + (IF Len(s) = 19 THEN float_of_digits(SubSeq(s, 12, 13)) ELSE 0)

\* dateparser.parse(date_string, settings={"PREFER_DATES_FROM": "future"}):
\* a TypeError for a non-string, None for a string that is no date.  A
\* date written in full (ISO 8601) is the instant it names.
dateparser_parse(v, rel) ==
    IF v.k # "str" THEN DtRaise
    ELSE IF \E d \in DateTable : d.txt = v.v
         THEN DtOk(prefer_future(CHOOSE d \in DateTable : d.txt = v.v, rel))
    ELSE IF is_iso(v.v) THEN DtOk(fromisoformat(v.v))
    ELSE DtNone

---------------------------------------------------------------------------
(* The normalizer: the body of the loop over events_raw                    *)
(* (parsers.py 183-231, parsers_general.py 108-156,                        *)
(*  image_processor.py 311-361)                                            *)

\* A task whose end is computed as for a one-hour event
task_end_as_event(start_dt) == start_dt + 1

\* end_dt = start_dt  (tasks are all-day events)
task_end(start_dt) == start_dt

\* all_day computed from the type alone
all_day_type_only(event_type, start_dt, end_dt) == event_type = JStr(s_task)

\* "all_day": (event_type == 'task' or end_dt == start_dt)
all_day_of(event_type, start_dt, end_dt) ==
    event_type = JStr(s_task) \/ end_dt = start_dt

\* The except branch adds no time
hours_of_default_zero(end_text) ==
    LET d == str_digits(str_split_first(end_text))
    IN  IF d = <<>> THEN 0 ELSE float_of_digits(d)

\* try: hours = float(''.join(filter(str.isdigit, end_text.split()[0])))
\* except: one hour.  float('') raises ValueError.
hours_of(end_text) ==
    LET d == str_digits(str_split_first(end_text))
    IN  IF d = <<>> THEN 1 ELSE float_of_digits(d)

\* 'hour' in end_text.lower() or 'hr' in end_text.lower()
has_hour_marker(end_text) ==
    \/ str_contains(str_lower(end_text), s_hour)
    \/ str_contains(str_lower(end_text), s_hr)

\* The branches on end_text with "none" compared without lower()
event_end_none_exact(event_raw, start_dt, rel) ==
    LET end_text == dict_get(event_raw.end_text, JStr(s_1hour))
    IN  IF end_text = JStr(s_0) THEN DtOk(start_dt)
        ELSE IF end_text.k # "str" THEN DtRaise
        ELSE IF end_text.v = s_none THEN DtOk(start_dt)
        ELSE IF has_hour_marker(end_text.v)
             THEN DtOk(start_dt + hours_of(end_text.v))
        ELSE LET end_p == dateparser_parse(end_text, rel)
             IN  IF end_p.ok = "dt" THEN end_p
                 ELSE DtOk(start_dt + 1)

\* The end of an event that is no task: the branches on end_text.
\* A non-string end_text other than "0" has no lower(): AttributeError.
event_end(event_raw, start_dt, rel) ==
    LET end_text == dict_get(event_raw.end_text, JStr(s_1hour))
    IN  IF end_text = JStr(s_0) THEN DtOk(start_dt)
        ELSE IF end_text.k # "str" THEN DtRaise
        ELSE IF str_lower(end_text.v) = s_none THEN DtOk(start_dt)
        ELSE IF has_hour_marker(end_text.v)
             THEN DtOk(start_dt + hours_of(end_text.v))
        ELSE LET end_p == dateparser_parse(end_text, rel)
             IN  IF end_p.ok = "dt" THEN end_p
                 ELSE DtOk(start_dt + 1)

\* if event_type == 'task': ... else: ...
end_dt_of(event_type, event_raw, start_dt, rel) ==
    IF event_type = JStr(s_task)
    THEN DtOk(task_end(start_dt))
    ELSE event_end(event_raw, start_dt, rel)

\* One iteration of the loop: <<>> when the candidate is skipped (continue,
\* or an exception caught by the loop's except), else the appended event.
\* The date parser works relative to the current time.
normalize_candidate(event_raw, rel) ==
    LET event_type == dict_get(event_raw.type, JStr(s_event))
        start_text == dict_get(event_raw.start_text, JStr(<<>>))
        start_p    == dateparser_parse(start_text, rel)
    IN  IF start_p.ok # "dt" THEN <<>>
        ELSE LET end_p == end_dt_of(event_type, event_raw, start_p.t, rel)
             IN  IF end_p.ok # "dt" THEN <<>>
                 ELSE << [ title       |-> dict_get(event_raw.title, JStr(s_Event)),
                           start       |-> start_p.t,
                           end         |-> end_p.t,
                           description |-> dict_get(event_raw.description, JStr(<<>>)),
                           location    |-> dict_get(event_raw.location, JNull),
                           type        |-> event_type,
                           all_day     |-> all_day_of(event_type, start_p.t, end_p.t),
                           recurring   |-> dict_get(event_raw.recurring, JFalse),
                           origin      |-> "normalizer" ] >>

\* for event_raw in events_raw: ... events.append(event)
RECURSIVE normalize_events(_, _)
normalize_events(events_raw, rel) ==
    IF events_raw = <<>> THEN <<>>
    ELSE normalize_candidate(Head(events_raw), rel)
            \o normalize_events(Tail(events_raw), rel)

---------------------------------------------------------------------------
(* Candidates and clocks the normalizer is run on                          *)

TypeValues  == { JStr(s_event), JStr(s_task), JStr(s_meeting), JAbsent }
StartValues == { JStr(s_mar5_2pm), JStr(s_mar5), JStr(<<>>), JStr(s_soon),
                 JAbsent, JNull }
EndValues   == { JStr(s_0), JStr(s_none), JStr(s_None), JStr(s_1hour),
                 JStr(s_2hours), JStr(s_t2hours), JStr(s_12hours),
                 JStr(s_1p5hours), JStr(s_hours), JStr(s_2hr), JStr(s_0hours),
                 JStr(s_3pm), JStr(s_mar4), JStr(s_mar5_2pm), JStr(s_soon),
                 JAbsent, JNull, JNum }
TitleValues == { JStr(s_Quiz), JStr(<<>>), JAbsent }

Candidates ==
    [ type : TypeValues, start_text : StartValues, end_text : EndValues,
      title : TitleValues, description : {JStr(s_Lab)}, location : {JNull},
      recurring : {JFalse} ]

\* March 3rd 10:00 and March 6th 10:00
NowValues == {58, 130}

---------------------------------------------------------------------------
(* The heuristic extractor (parsers.py 17-74) and the basic extractor of   *)
(* parsers_general.py 165-196                                              *)

\* len(title) > 140
TitleClip == 140

\* The phrase of DateTable that starts at position pos of s, the longest one
phrases_at(s, pos) ==
    { d \in DateTable :
        /\ pos + Len(d.txt) - 1 <= Len(s)
        /\ SubSeq(s, pos, pos + Len(d.txt) - 1) = d.txt }

longest_phrase(ds) == CHOOSE d \in ds : \A e \in ds : Len(e.txt) <= Len(d.txt)

\* dateparser.search.search_dates(text, settings): the (matched_text, datetime)
\* pairs of the date phrases of text, scanned from the left
\* The first position at or after pos where a phrase starts, 0 if none
next_phrase_pos(s, pos) ==
    LET at == { q \in pos..Len(s) : phrases_at(s, q) # {} }
    IN  IF at = {} THEN 0 ELSE CHOOSE q \in at : \A r \in at : q <= r

RECURSIVE scan_dates(_, _, _)
scan_dates(s, pos, rel) ==
    IF next_phrase_pos(s, pos) = 0 THEN <<>>
    ELSE LET q == next_phrase_pos(s, pos)
             d == longest_phrase(phrases_at(s, q))
         IN  << [match_text |-> d.txt, dt |-> prefer_future(d, rel)] >>
                \o scan_dates(s, q + Len(d.txt), rel)

\* settings["RELATIVE_BASE"] = base_date, when base_date is given
relative_base(base, nw) == IF base.given THEN base.t ELSE nw

search_dates(s, base, nw) == scan_dates(s, 1, relative_base(base, nw))

\* s.find(sub, from): 0-based index of the first occurrence at or after
\* from, or -1
str_find(s, sub, from) ==
    LET hits == { i \in from..(Len(s) - Len(sub)) :
                    \A j \in 1..Len(sub) : s[i + j] = sub[j] }
    IN  IF hits = {} THEN -1
        ELSE CHOOSE i \in hits : \A h \in hits : i <= h

\* s.rfind(sub, 0, to): 0-based index of the last occurrence that ends at or
\* before to, or -1
str_rfind(s, sub, to) ==
    LET hits == { i \in 0..(to - Len(sub)) :
                    \A j \in 1..Len(sub) : s[i + j] = sub[j] }
    IN  IF hits = {} THEN -1
        ELSE CHOOSE i \in hits : \A h \in hits : h <= i

\* s.strip()
RECURSIVE str_strip(_)
str_strip(s) ==
    IF s = <<>> THEN s
    ELSE IF str_isspace(Head(s)) THEN str_strip(Tail(s))
    ELSE IF str_isspace(s[Len(s)]) THEN str_strip(SubSeq(s, 1, Len(s) - 1))
    ELSE s

\* s.split(".")[0]
str_before_period(s) ==
    LET i == str_find(s, <<".">>, 0)
    IN  IF i = -1 THEN s ELSE SubSeq(s, 1, i)

\* _extract_sentence(text, start_idx, end_idx), 0-based indices
extract_sentence(s, start_idx, end_idx) ==
    LET l     == str_rfind(s, <<"\n">>, start_idx)
        left  == IF l = -1 THEN 0 ELSE l + 1
        r     == str_find(s, <<"\n">>, end_idx)
        right == IF r = -1 THEN Len(s) ELSE r
    IN  str_strip(SubSeq(s, left + 1, right))

\* The event built for one match of search_dates.  The dict has no type,
\* all_day or recurring key (JAbsent; all_day reads as False downstream).
heuristic_event(s, m) ==
    LET i      == str_find(s, m.match_text, 0)
        line   == IF i = -1 THEN m.match_text
                  ELSE extract_sentence(s, i, i + Len(m.match_text))
        title  == IF Len(line) > TitleClip THEN str_before_period(line) ELSE line
    IN  [ title       |-> JStr(IF title = <<>> THEN m.match_text ELSE title),
          start       |-> m.dt,
          end         |-> m.dt + 1,
          description |-> JStr(title),
          location    |-> JNull,
          type        |-> JAbsent,
          all_day     |-> FALSE,
          recurring   |-> JAbsent,
          origin      |-> "heuristic" ]

\* extract_events_from_text(text, base_date)
extract_events_from_text(s, base, nw) ==
    LET found == search_dates(s, base, nw)
    IN  [ i \in 1..Len(found) |-> heuristic_event(s, found[i]) ]

\* _extract_events_basic(text, base_date)
extract_events_basic(s, base, nw) ==
    LET found == search_dates(s, base, nw)
    IN  [ i \in 1..Len(found) |->
            [ title       |-> JStr(IF found[i].match_text = <<>> THEN s_Event
                                   ELSE found[i].match_text),
              start       |-> found[i].dt,
              end         |-> found[i].dt + 1,
              description |-> JStr(found[i].match_text),
              location    |-> JNull,
              type        |-> JStr(s_event),
              all_day     |-> FALSE,
              recurring   |-> JFalse,
              origin      |-> "heuristic" ] ]

doc_two_lines == <<"Q","u","i","z"," ","M","a","r"," ","5","\n","L","a","b"," ","M","a","r"," ","4">>
doc_no_date   == <<"S","e","e"," ","y","o","u"," ","s","o","o","n">>
doc_one_line  == <<" ","E","x","a","m"," ","M","a","r"," ","5"," ","2","p","m"," ">>
Docs == { doc_two_lines, doc_no_date, doc_one_line }

NoBase == [given |-> FALSE, t |-> 0]
BaseValues == { NoBase, [given |-> TRUE, t |-> 100] }

---------------------------------------------------------------------------
(* Backend responses.  A response text is a sequence of tokens:            *)
(*   "FJ" the fence ```json, "F" the fence ```, "X" prose that is no JSON,  *)
(*   "NUM" a JSON number, "OBJ" a JSON object, "A1".."A5" the JSON array    *)
(*   written by the identifier of that index.                              *)

model_names == << "models/gemini-2.5-flash", "models/gemini-2.0-flash",
                  "models/gemini-flash-latest", "models/gemini-pro-latest",
                  "models/gemini-2.5-pro" >>

ModelIx == 1..Len(model_names)

ArrayTokens == << "A1", "A2", "A3", "A4", "A5" >>

\* The title that identifier i gives to its candidates
title_of_model(i) == JStr(<<"Q", DigitChars[i + 1]>>)

\* The JSON array that identifier i answers with: an event, a task and a
\* candidate without a parseable start
array_of_model(i) ==
    << [ type |-> JStr(s_event), start_text |-> JStr(s_mar5_2pm),
         end_text |-> JStr(s_2hours), title |-> title_of_model(i),
         description |-> JStr(s_Lab), location |-> JNull, recurring |-> JTrue ],
       [ type |-> JStr(s_task), start_text |-> JStr(s_mar5),
         end_text |-> JStr(s_0), title |-> title_of_model(i),
         description |-> JStr(s_Lab), location |-> JNull, recurring |-> JFalse ],
       [ type |-> JStr(s_event), start_text |-> JStr(s_soon),
         end_text |-> JAbsent, title |-> title_of_model(i),
         description |-> JStr(s_Lab), location |-> JNull, recurring |-> JAbsent ] >>

is_array_token(t) == \E i \in ModelIx : ArrayTokens[i] = t

array_of_token(t) == array_of_model(CHOOSE i \in ModelIx : ArrayTokens[i] = t)

NoResponse   == [kind |-> "none", toks |-> <<>>]     \* response = None
Blocked      == [kind |-> "blocked", toks |-> <<>>]  \* response.text raises
TextResp(ts) == [kind |-> "text", toks |-> ts]

\* What identifier i may answer on the text paths
ResponsesOf(i) ==
    { TextResp(<<ArrayTokens[i]>>),
      TextResp(<<"X", "FJ", ArrayTokens[i], "F", "X">>),
      TextResp(<<"F", ArrayTokens[i], "F">>),
      TextResp(<<"X">>),
      TextResp(<<"FJ", "X", "F">>),
      TextResp(<<"NUM">>),
      TextResp(<<"OBJ">>),
      Blocked }

\* What identifier i may answer on the image path
ImageResponsesOf(i) ==
    { TextResp(<<"X", "FJ", ArrayTokens[i], "F", "X">>),
      TextResp(<<"X">>),
      TextResp(<<"NUM">>) }

\* What the call may raise: a rate-limit/timeout signal ("429" or "timeout"
\* in the message) or any other exception
Exceptions == { "ratelimit", "other" }

index_of(ts, t) ==
    IF \E i \in 1..Len(ts) : ts[i] = t
    THEN CHOOSE i \in 1..Len(ts) : ts[i] = t /\ \A j \in 1..(i - 1) : ts[j] # t
    ELSE 0

\* s.split("```")[0] of a text without "```json" left: up to the first fence
before_fence(ts) ==
    LET i == IF index_of(ts, "F") = 0 THEN index_of(ts, "FJ")
             ELSE IF index_of(ts, "FJ") = 0 THEN index_of(ts, "F")
             ELSE IF index_of(ts, "F") < index_of(ts, "FJ")
                  THEN index_of(ts, "F") ELSE index_of(ts, "FJ")
    IN  IF i = 0 THEN ts ELSE SubSeq(ts, 1, i - 1)

\* if "```json" in t: t.split("```json")[1].split("```")[0]
\* elif "```" in t:   t.split("```")[1].split("```")[0]
strip_fences(ts) ==
    IF index_of(ts, "FJ") # 0
    THEN before_fence(SubSeq(ts, index_of(ts, "FJ") + 1, Len(ts)))
    ELSE IF index_of(ts, "F") # 0
    THEN before_fence(SubSeq(ts, index_of(ts, "F") + 1, Len(ts)))
    ELSE ts

\* json.loads(t.strip()) succeeds: the text is one JSON value
json_valid(ts) ==
    Len(ts) = 1 /\ (is_array_token(ts[1]) \/ ts[1] \in {"NUM", "OBJ"})

---------------------------------------------------------------------------
(* The extraction entry points:                                            *)
(*   "text"    extract_events_with_gemini          (parsers.py 77-237)     *)
(*   "general" extract_events_with_gemini_general  (parsers_general.py)    *)
(*   "image"   extract_events_from_image_gemini    (image_processor.py)    *)

Paths == { "text", "general", "image" }
Keys  == { "unset", "empty", "set" }

\* timeout_handler(call_api, timeout_seconds=300)
timeout_seconds == 300
\* check_interval = 30
check_interval == 30

EmptyCell     == [st |-> "empty", resp |-> NoResponse, exc |-> "none"]
ResultCell(r) == [st |-> "result", resp |-> r, exc |-> "none"]
ExcCell(e)    == [st |-> "exception", resp |-> NoResponse, exc |-> e]

\* What the call for identifier i may end with
OutcomesOf(p, i) ==
    { ResultCell(r) : r \in IF p = "image" THEN ImageResponsesOf(i)
                            ELSE ResponsesOf(i) }
        \cup { ExcCell(e) : e \in Exceptions }

\* text paths: if not api_key;  image path: 'GEMINI_API_KEY' not in os.environ
unconfigured(p, key) ==
    IF p = "image" THEN key = "unset" ELSE key \in {"unset", "empty"}

\* The fallback of the two text paths
fallback_events(p, s, base, nw) ==
    IF p = "general" THEN extract_events_basic(s, base, nw)
    ELSE extract_events_from_text(s, base, nw)

Returned(evs) == [pc |-> "done", outcome |-> "returned", events |-> evs]
Raised        == [pc |-> "done", outcome |-> "raised", events |-> <<>>]

\* The backend is not configured: the text paths return the fallback, the
\* image path raises RuntimeError
no_key_result(p, s, base, nw) ==
    IF p = "image" THEN Raised ELSE Returned(fallback_events(p, s, base, nw))

\* The outermost handler returning an empty list on every path
give_up_empty(p, s, base, nw) == Returned(<<>>)

\* The outermost handler raising on every path
give_up_raises(p, s, base, nw) == Raised

\* The outermost except Exception: the text paths return the fallback, the
\* image path raises RuntimeError
give_up(p, s, base, nw) ==
    IF p = "image" THEN Raised ELSE Returned(fallback_events(p, s, base, nw))

\* A malformed response sending the caller back into the loop
on_malformed_retry(p, s, base, nw) ==
    [pc |-> "loop", outcome |-> "running", events |-> <<>>]

\* json.loads (or response.text) raises after the loop: the exception goes
\* to the outermost handler
on_malformed(p, s, base, nw) == give_up(p, s, base, nw)

\* The loop's continue skipping an identifier
next_index_skip(i) == i + 2

\* The loop goes on to the next identifier of the list
next_index(i) == i + 1

\* break after a response
after_success == "after_loop"

\* The inner try of the image path: break on a response, continue on
\* TimeoutError and on a rate-limit/timeout message, re-raise anything else
image_inner(kind) ==
    IF kind = "response" THEN "break"
    ELSE IF kind = "timeout" THEN "continue"
    ELSE IF kind = "ratelimit" THEN "continue"
    ELSE "reraise"

\* The per-identifier except Exception of the loop: continue
loop_except(d) == IF d = "reraise" THEN "continue" ELSE d

\* A loop whose body has no exception handler
disposition_no_handlers(p, kind) ==
    IF kind = "response" THEN "break" ELSE "reraise"

\* What the loop does with the end of an attempt
disposition(p, kind) ==
    IF p = "image" THEN loop_except(image_inner(kind))
    ELSE loop_except(IF kind = "response" THEN "break" ELSE "reraise")

\* How the caller sees the end of the call whose cell is c
kind_of(c) == IF c.st = "result" THEN "response" ELSE c.exc

\* One result cell shared by all the calls
attempt_response_shared(cells, i) == cells[1].resp

\* response = the value returned by this attempt's call
attempt_response(cells, i) == cells[i].resp

\* The code after the loop, for a response that was received
parse_response(p, resp, s, base, nw) ==
    IF resp.kind = "blocked" \/ ~json_valid(strip_fences(resp.toks))
    THEN on_malformed(p, s, base, nw)
    ELSE LET v == strip_fences(resp.toks)[1]
         IN  IF v = "NUM" THEN give_up(p, s, base, nw)   \* not iterable
             ELSE IF v = "OBJ" THEN Returned(<<>>)       \* keys have no get
             ELSE Returned(normalize_events(array_of_token(v), nw))

---------------------------------------------------------------------------
(* One extraction call, step by step                                       *)

IdleCandidate ==
    [ type |-> JAbsent, start_text |-> JAbsent, end_text |-> JAbsent,
      title |-> JAbsent, description |-> JStr(s_Lab), location |-> JNull,
      recurring |-> JFalse ]

\* The image path takes no text and no base_date; one clock is enough for it
Init ==
    /\ path \in Paths
    /\ api_key \in Keys
    /\ text \in Docs
    /\ base_date \in BaseValues
    /\ now \in NowValues
    /\ path = "image" => (text = doc_no_date /\ base_date = NoBase /\ now = 58)
    /\ pc = "start"
    /\ idx = 1
    /\ tried = <<>>
    /\ attempt = [i \in ModelIx |-> "none"]
    /\ worker = [i \in ModelIx |-> "idle"]
    /\ cell = [i \in ModelIx |-> EmptyCell]
    /\ elapsed = 0
    /\ response = NoResponse
    /\ events = <<>>
    /\ outcome = "running"
    /\ cand = IdleCandidate
    /\ norm_pc = "idle"
    /\ norm_out = <<>>
    /\ again = <<>>
    /\ batch_in = <<>>
    /\ raw_i = 1
    /\ batch_out = <<>>
    /\ events_to_create = <<>>
    /\ create_i = 1
    /\ sent = {}
    /\ created_events = <<>>
    /\ RecurIdle
    /\ TimeoutIdle
    /\ FilesIdle

Finish(r) ==
    /\ pc' = r.pc
    /\ outcome' = r.outcome
    /\ events' = r.events

\* The API key is missing: parsers.py 85-89, image_processor.py 165-169
NotConfigured ==
    /\ pc = "start"
    /\ unconfigured(path, api_key)
    /\ Finish(no_key_result(path, text, base_date, now))
    /\ UNCHANGED <<path, api_key, text, base_date, idx, tried, attempt, worker,
                   cell, elapsed, response, nvars, xvars>>

\* The API key is there: configure, build the prompt, response = None
Configured ==
    /\ pc = "start"
    /\ ~unconfigured(path, api_key)
    /\ pc' = "loop"
    /\ UNCHANGED <<path, api_key, text, base_date, idx, tried, attempt, worker,
                   cell, elapsed, response, events, outcome, nvars, xvars>>

\* for model_name in model_names: the call for the next identifier starts.
\* The text paths call generate_content themselves; the image path starts
\* timeout_handler's thread, with elapsed = 0, and enters its while loop.
TryModel ==
    /\ pc = "loop"
    /\ idx \in ModelIx
    /\ tried' = Append(tried, model_names[idx])
    /\ attempt' = [attempt EXCEPT ![idx] = "started"]
    /\ worker' = [worker EXCEPT ![idx] = "running"]
    /\ elapsed' = 0
    /\ pc' = IF path = "image" THEN "join" ELSE "call"
    /\ UNCHANGED <<path, api_key, text, base_date, idx, cell, response, events,
                   outcome, nvars, xvars>>

\* The list is exhausted
LoopExhausted ==
    /\ pc = "loop"
    /\ idx \notin ModelIx
    /\ pc' = "after_loop"
    /\ UNCHANGED <<path, api_key, text, base_date, idx, tried, attempt, worker,
                   cell, elapsed, response, events, outcome, nvars, xvars>>

\* The backend call for identifier i ends, with a response or an exception,
\* and leaves it in its own cell (result[0] / exception[0])
WorkerFinish(i, out) ==
    /\ worker[i] = "running"
    /\ worker' = [worker EXCEPT ![i] = "finished"]
    /\ cell' = [cell EXCEPT ![i] = out]
    /\ UNCHANGED <<path, api_key, text, base_date, pc, idx, tried, attempt,
                   elapsed, response, events, outcome, nvars, xvars>>

\* What the loop does once the attempt on identifier idx has ended as kind
EndAttempt(kind) ==
    LET d == disposition(path, kind)
    IN  /\ attempt' = [attempt EXCEPT ![idx] = kind]
        /\ idx' = next_index(idx)
        /\ IF d = "break"
           THEN /\ response' = attempt_response(cell, idx)
                /\ pc' = after_success
                /\ UNCHANGED <<events, outcome>>
           ELSE IF d = "continue"
           THEN /\ pc' = "loop"
                /\ UNCHANGED <<response, events, outcome>>
           ELSE /\ Finish(give_up(path, text, base_date, now))
                /\ UNCHANGED response

\* Text paths: generate_content has returned or raised (parsers.py 156-164)
CallDone ==
    /\ pc = "call"
    /\ worker[idx] = "finished"
    /\ EndAttempt(kind_of(cell[idx]))
    /\ UNCHANGED <<path, api_key, text, base_date, tried, worker, cell,
                   elapsed, nvars, xvars>>

\* timeout_handler, lines 43-47: thread.join(check_interval) has returned,
\* the thread having ended or the interval having passed; elapsed grows and
\* the while condition is tested again
Join ==
    /\ pc = "join"
    /\ elapsed' = elapsed + check_interval
    /\ pc' = IF worker[idx] = "running" /\ elapsed' < timeout_seconds
             THEN "join" ELSE "after_poll"
    /\ UNCHANGED <<path, api_key, text, base_date, idx, tried, attempt, worker,
                   cell, response, events, outcome, nvars, xvars>>

\* timeout_handler, lines 49-55, and the handlers of the image path's loop:
\* TimeoutError when the thread is still alive (the thread is left running),
\* the thread's exception, or its result.  elapsed is a local of
\* timeout_handler and ends with the call.
AfterPoll ==
    /\ pc = "after_poll"
    /\ EndAttempt(IF worker[idx] = "running" THEN "timeout"
                  ELSE kind_of(cell[idx]))
    /\ elapsed' = 0
    /\ UNCHANGED <<path, api_key, text, base_date, tried, worker, cell, nvars, xvars>>

\* if response is None: raise Exception("All ... models failed")
AllFailed ==
    /\ pc = "after_loop"
    /\ response = NoResponse
    /\ Finish(give_up(path, text, base_date, now))
    /\ UNCHANGED <<path, api_key, text, base_date, idx, tried, attempt, worker,
                   cell, elapsed, response, nvars, xvars>>

\* The response is read, stripped, parsed and normalized
ParseResponse ==
    /\ pc = "after_loop"
    /\ response # NoResponse
    /\ LET r == parse_response(path, response, text, base_date, now)
       IN  /\ Finish(r)
           /\ response' = IF r.pc = "loop" THEN NoResponse ELSE response
    /\ UNCHANGED <<path, api_key, text, base_date, idx, tried, attempt, worker,
                   cell, elapsed, nvars, xvars>>

Next ==
    \/ NotConfigured
    \/ Configured
    \/ TryModel
    \/ LoopExhausted
    \/ \E i \in ModelIx : \E out \in OutcomesOf(path, i) : WorkerFinish(i, out)
    \/ CallDone
    \/ Join
    \/ AfterPoll
    \/ AllFailed
    \/ ParseResponse

Spec == Init /\ [][Next]_vars

---------------------------------------------------------------------------
(* One candidate through the loop body of the normalizer                   *)

InitNorm ==
    /\ path = "text"
    /\ api_key = "set"
    /\ text = doc_no_date
    /\ base_date = NoBase
    /\ pc = "idle"
    /\ idx = 1
    /\ tried = <<>>
    /\ attempt = [i \in ModelIx |-> "none"]
    /\ worker = [i \in ModelIx |-> "idle"]
    /\ cell = [i \in ModelIx |-> EmptyCell]
    /\ elapsed = 0
    /\ response = NoResponse
    /\ events = <<>>
    /\ outcome = "running"
    /\ now \in NowValues
    /\ cand \in Candidates
    /\ norm_pc = "pending"
    /\ norm_out = <<>>
    /\ again = <<>>
    /\ batch_in = <<>>
    /\ raw_i = 1
    /\ batch_out = <<>>
    /\ events_to_create = <<>>
    /\ create_i = 1
    /\ sent = {}
    /\ created_events = <<>>
    /\ RecurIdle
    /\ TimeoutIdle
    /\ FilesIdle

Normalize ==
    /\ norm_pc = "pending"
    /\ norm_out' = normalize_candidate(cand, now)
    /\ norm_pc' = "done"
    /\ UNCHANGED <<now, cand, pvars, xvars>>

NextNorm == Normalize

SpecNorm == InitNorm /\ [][NextNorm]_vars

---------------------------------------------------------------------------
(* Properties                                                              *)

\* The caller saw the attempt on identifier i fail
Failed(i) == attempt[i] \in {"timeout", "ratelimit", "other"}

AllModelsFailed == \A i \in ModelIx : Failed(i)

\* r is a response text that json.loads rejects after fence stripping
Malformed(r) == r.kind = "text" /\ ~json_valid(strip_fences(r.toks))

\* r is a response text that is a JSON array after fence stripping
ValidArray(r) ==
    /\ r.kind = "text"
    /\ json_valid(strip_fences(r.toks))
    /\ is_array_token(strip_fences(r.toks)[1])

\* The calls that have started and not ended
InFlight == { i \in ModelIx : worker[i] = "running" }

\* C1: on the text path, when the API key is unset or empty, or every
\* identifier has failed, or the response is not valid JSON after fence
\* stripping, the call returns (it does not raise) exactly the events of
\* the heuristic extractor on the same text and base_date.
C1_FallbackIsHeuristic ==
    ( /\ pc = "done"
      /\ path = "text"
      /\ \/ api_key \in {"unset", "empty"}
         \/ AllModelsFailed
         \/ Malformed(response) )
    => /\ outcome = "returned"
       /\ events = extract_events_from_text(text, base_date, now)

\* C1 witness: the first two identifiers failed, the third answered prose,
\* and the heuristic events of a text with dates were returned
C1_Witness ==
    /\ pc = "done"
    /\ path = "text"
    /\ Failed(1) /\ Failed(2) /\ attempt[3] = "response"
    /\ Malformed(response)
    /\ outcome = "returned"
    /\ Len(events) = 2

ImageRaises ==
    \/ api_key = "unset"
    \/ AllModelsFailed
    \/ response.kind = "blocked"
    \/ Malformed(response)
    \/ (response.kind = "text" /\ strip_fences(response.toks) = <<"NUM">>)

C3_CascadeInOrder ==
    /\ tried = SubSeq(model_names, 1, Len(tried))
    /\ \A i \in 1..Len(tried) : \A j \in 1..(i - 1) : Failed(j)
    /\ \A i \in ModelIx : attempt[i] = "response" => Len(tried) = i
    /\ \A i \in ModelIx : attempt[i] # "none" <=> i <= Len(tried)
    /\ ( /\ pc = "done"
         /\ ~unconfigured(path, api_key)
         /\ response = NoResponse )
       => (Len(tried) = Len(model_names) /\ AllModelsFailed)

\* C3 witness: the third identifier answered after a timeout and an
\* exception, and the call is over
C3_Witness ==
    /\ pc = "done"
    /\ attempt[1] = "timeout"
    /\ attempt[2] = "other"
    /\ attempt[3] = "response"
    /\ Len(tried) = 3

\* C4: when the identifiers before j failed and identifier j answered a
\* valid JSON array, the events returned are the normalization of that
\* array alone: all of them carry identifier j's title and come from the
\* normalizer, none from the heuristic extractor or from another attempt.
C4_ResultIsThatArrayOnly ==
    \A j \in ModelIx :
        ( /\ pc = "done"
          /\ attempt[j] = "response"
          /\ \A i \in 1..(j - 1) : Failed(i)
          /\ ValidArray(cell[j].resp) )
        => /\ outcome = "returned"
           /\ events = normalize_events(array_of_model(j), now)
           /\ \A n \in 1..Len(events) :
                 /\ events[n].origin = "normalizer"
                 /\ events[n].title = title_of_model(j)

\* C4 witness: two failures, then the third identifier's fenced array,
\* which gives two events
C4_Witness ==
    /\ pc = "done"
    /\ Failed(1) /\ Failed(2)
    /\ attempt[3] = "response"
    /\ ValidArray(cell[3].resp)
    /\ Len(events) = 2

C6_TimeoutGoesOn ==
    \A i \in ModelIx :
        attempt[i] = "timeout" =>
            /\ path = "image"
            /\ i < Len(model_names) =>
                  \/ Len(tried) > i
                  \/ (pc = "loop" /\ idx = i + 1 /\ outcome = "running")
            /\ outcome = "raised" =>
                  \/ Len(tried) = Len(model_names)
                  \/ \E j \in (i + 1)..Len(model_names) : attempt[j] = "response"

\* C6 witness: the first identifier timed out, its call still running, and
\* the second identifier's answer was returned
C6_Witness ==
    /\ pc = "done"
    /\ attempt[1] = "timeout"
    /\ worker[1] = "running"
    /\ attempt[2] = "response"
    /\ outcome = "returned"

\* C7: at most one backend call is in flight at any time, also after an
\* attempt was abandoned on timeout.
C7_OneCallInFlight == Cardinality(InFlight) <= 1

\* The events appended for the candidate
NormEvents == { norm_out[n] : n \in 1..Len(norm_out) }

\* C8: every normalized event has end >= start.
C8_EndNotBeforeStart == \A e \in NormEvents : e.end >= e.start

\* C9: every normalized event of type task has all_day true and
\* start = end, whatever its end_text is.
C9_TaskIsAllDay ==
    \A e \in NormEvents :
        e.type = JStr(s_task) => (e.all_day /\ e.start = e.end)

\* C9 witness: a task with end_text "2 hours" was normalized
C9_Witness ==
    /\ norm_pc = "done"
    /\ cand.type = JStr(s_task)
    /\ cand.end_text = JStr(s_2hours)
    /\ Len(norm_out) = 1

\* C10: for every normalized event, all_day is true exactly when the type
\* is task or start equals end.
C10_AllDayIff ==
    \A e \in NormEvents :
        e.all_day <=> (e.type = JStr(s_task) \/ e.start = e.end)

\* C10 witness: an event that is no task was normalized with start = end
\* and all_day true
C10_Witness ==
    /\ norm_pc = "done"
    /\ cand.type = JStr(s_event)
    /\ cand.end_text = JStr(s_0hours)
    /\ \E e \in NormEvents : e.all_day /\ e.start = e.end

\* The candidate is no task: its type, defaulted to "event", is not "task"
NonTask(c) == dict_get(c.type, JStr(s_event)) # JStr(s_task)

\* end_text is the sentinel "0", or "none" in any letter case
ZeroOrNone(c) ==
    \/ c.end_text = JStr(s_0)
    \/ c.end_text.k = "str" /\ str_lower(c.end_text.v) = s_none

\* C11: for every non-task candidate whose end_text is "0" or equals "none"
\* case-insensitively, the normalized event has start = end and all_day
\* true.
C11_ZeroOrNoneIsAllDay ==
    (norm_pc = "done" /\ NonTask(cand) /\ ZeroOrNone(cand)) =>
        \A e \in NormEvents : e.start = e.end /\ e.all_day

\* C11 witness: an event with end_text "None" was normalized
C11_Witness ==
    /\ norm_pc = "done"
    /\ cand.type = JStr(s_event)
    /\ cand.end_text = JStr(s_None)
    /\ Len(norm_out) = 1
    /\ norm_out[1].all_day

\* The text before the first space, without its leading characters that are
\* no digit
RECURSIVE drop_non_digits(_)
drop_non_digits(s) ==
    IF s = <<>> \/ str_isdigit(Head(s)) THEN s ELSE drop_non_digits(Tail(s))

\* The leading digits of s
RECURSIVE leading_digits(_)
leading_digits(s) ==
    IF s = <<>> \/ ~str_isdigit(Head(s)) THEN <<>>
    ELSE <<Head(s)>> \o leading_digits(Tail(s))

\* The numeric prefix N of an end_text such as "~2 hours" or "1.5 hours",
\* in tenths of an hour: the integer part, then one decimal after a point
numeric_prefix_tenths(end_text) ==
    LET num  == drop_non_digits(str_split_first(end_text))
        ip   == leading_digits(num)
        rest == SubSeq(num, Len(ip) + 1, Len(num))
        frac == IF Len(rest) >= 2 /\ rest[1] = "." /\ str_isdigit(rest[2])
                THEN digit_value(rest[2]) ELSE 0
    IN  float_of_digits(ip) * 10 + frac

\* end_text has an hour marker and a numeric prefix
HasNumericHours(c) ==
    /\ c.end_text.k = "str"
    /\ has_hour_marker(c.end_text.v)
    /\ leading_digits(drop_non_digits(str_split_first(c.end_text.v))) # <<>>

\* C12: for every non-task candidate whose end_text has an hour marker with
\* a numeric prefix N (also "~2 hours", "12 hours", "1.5 hours"), the
\* normalized event has end - start = N hours.
C12_EndIsStartPlusN ==
    (norm_pc = "done" /\ NonTask(cand) /\ HasNumericHours(cand)) =>
        \A e \in NormEvents :
            (e.end - e.start) * 10 = numeric_prefix_tenths(cand.end_text.v)

\* C15: every normalized event has type "event" or "task".
C15_TypeIsEventOrTask ==
    \A e \in NormEvents : e.type \in {JStr(s_event), JStr(s_task)}

\* C16: every normalized event has a non-empty title.
C16_TitleNotEmpty ==
    \A e \in NormEvents : e.title.k = "str" /\ e.title.v # <<>>

---------------------------------------------------------------------------
(* A batch of candidates through the loop of the normalizer                *)
(* (parsers.py 181-233), one iteration per step                            *)

\* The extraction pipeline is not running
PipelineIdle ==
    /\ path = "text"
    /\ api_key = "set"
    /\ text = doc_no_date
    /\ base_date = NoBase
    /\ pc = "idle"
    /\ idx = 1
    /\ tried = <<>>
    /\ attempt = [i \in ModelIx |-> "none"]
    /\ worker = [i \in ModelIx |-> "idle"]
    /\ cell = [i \in ModelIx |-> EmptyCell]
    /\ elapsed = 0
    /\ response = NoResponse
    /\ events = <<>>
    /\ outcome = "running"

\* No single candidate is being normalized
NormIdle ==
    /\ cand = IdleCandidate
    /\ norm_pc = "idle"
    /\ norm_out = <<>>
    /\ again = <<>>

\* No batch is being normalized
BatchIdle ==
    /\ batch_in = <<>>
    /\ raw_i = 1
    /\ batch_out = <<>>

\* No events are being created
CreateIdle ==
    /\ events_to_create = <<>>
    /\ create_i = 1
    /\ sent = {}
    /\ created_events = <<>>

\* Longest array the loop is run on
MaxBatch == 2

BatchCandidates ==
    [ type : {JStr(s_event), JStr(s_task)},
      start_text : {JStr(s_mar5_2pm), JStr(<<>>), JStr(s_soon), JAbsent, JNull},
      end_text : {JStr(s_2hours), JNum},
      title : {JStr(s_Quiz), JStr(s_Lab)},
      description : {JStr(s_Lab)}, location : {JNull}, recurring : {JFalse} ]

Batches == UNION { [1..n -> BatchCandidates] : n \in 0..MaxBatch }

\* a skipped candidate ends the loop
after_skip_break(i, n) == n + 1

\* continue (parsers.py 192, 231): the loop goes on with the next candidate
after_skip(i, n) == i + 1

\* events.insert(0, event)
events_insert_front(evs, event) == <<event>> \o evs

\* events.append(event)
events_append(evs, event) == Append(evs, event)

InitBatch ==
    /\ PipelineIdle
    /\ NormIdle
    /\ CreateIdle
    /\ now \in NowValues
    /\ batch_in \in Batches
    /\ raw_i = 1
    /\ batch_out = <<>>
    /\ RecurIdle
    /\ TimeoutIdle
    /\ FilesIdle

\* The iteration ends in continue: the start did not parse, or the body
\* raised and the loop's except caught it
BatchSkip ==
    /\ raw_i \in 1..Len(batch_in)
    /\ normalize_candidate(batch_in[raw_i], now) = <<>>
    /\ raw_i' = after_skip(raw_i, Len(batch_in))
    /\ UNCHANGED <<batch_in, batch_out, pvars, nvars, again,
                   events_to_create, create_i, sent, created_events, zvars>>

\* The iteration appends the event built from the candidate
BatchAppend ==
    /\ raw_i \in 1..Len(batch_in)
    /\ normalize_candidate(batch_in[raw_i], now) # <<>>
    /\ batch_out' =
           events_append(batch_out, normalize_candidate(batch_in[raw_i], now)[1])
    /\ raw_i' = raw_i + 1
    /\ UNCHANGED <<batch_in, pvars, nvars, again,
                   events_to_create, create_i, sent, created_events, zvars>>

NextBatch == BatchSkip \/ BatchAppend

SpecBatch == InitBatch /\ [][NextBatch]_vars

\* The loop over batch_in has ended
BatchDone == raw_i > Len(batch_in)

\* The candidate is one the loop cannot normalize: start_text is absent,
\* empty, no string or no date, or the candidate is no task and its
\* end_text is not a string
Unusable(c) ==
    \/ c.start_text.k # "str"
    \/ c.start_text.v = <<>>
    \/ ~\E d \in DateTable : d.txt = c.start_text.v
    \/ NonTask(c) /\ c.end_text.k \notin {"str", "absent"}

\* Positions of batch_in whose candidate can be normalized
Usable == { k \in 1..Len(batch_in) : ~Unusable(batch_in[k]) }

\* C13: when the loop has ended, the output holds no event for an unusable
\* candidate and holds, for every other candidate of the batch, the event
\* that candidate normalizes to: the output has as many events as there
\* are usable candidates.
C13_BadCandidateDroppedOthersKept ==
    BatchDone =>
        /\ Len(batch_out) = Cardinality(Usable)
        /\ \A k \in Usable :
              \E j \in 1..Len(batch_out) :
                  <<batch_out[j]>> = normalize_candidate(batch_in[k], now)

\* C13 witness: a batch whose first candidate has a non-string end_text and
\* whose second candidate is good ended with one event
C13_Witness ==
    /\ BatchDone
    /\ Len(batch_in) = 2
    /\ batch_in[1].start_text = JStr(s_mar5_2pm)
    /\ batch_in[1].type = JStr(s_event)
    /\ batch_in[1].end_text = JNum
    /\ ~Unusable(batch_in[2])
    /\ Len(batch_out) = 1

\* The titles and types of a list of candidates or events, in order
TitlesOf(q) == [ j \in 1..Len(q) |-> <<q[j].title, q[j].type>> ]

\* C14: the events of the output are those of the usable candidates in
\* input order, one per usable candidate and nothing in between.
C14_OrderPreservingSubsequence ==
    BatchDone =>
        LET keep(c) == ~Unusable(c)
        IN  TitlesOf(batch_out) = TitlesOf(SelectSeq(batch_in, keep))

\* C14 witness: two usable candidates titled "Lab" and "Quiz" gave their
\* events in that order
C14_Witness ==
    /\ BatchDone
    /\ Len(batch_in) = 2
    /\ Len(batch_out) = 2
    /\ batch_in[1].title = JStr(s_Lab)
    /\ batch_in[2].title = JStr(s_Quiz)
    /\ batch_out[1].title = JStr(s_Lab)

---------------------------------------------------------------------------
(* The heuristic extractor (parsers.py 31-74), one match per step          *)

doc_repeat    == <<"Q","u","i","z"," ","M","a","r"," ","5","\n","L","a","b"," ","M","a","r"," ","5">>
doc_same_line == <<"M","a","r"," ","4"," ","o","r"," ","M","a","r"," ","5">>
doc_times     == <<"C","a","l","l"," ","3","p","m","\n","L","a","b"," ","M","a","r"," ","4">>
doc_three     == <<"M","a","r"," ","4","\n","M","a","r"," ","5"," ","2","p","m","\n","3","p","m">>
\* a line of more than TitleClip characters with a period in it
doc_long      == <<"E","x","a","m","."," ">> \o [i \in 1..TitleClip |-> "x"] \o <<" ","M","a","r"," ","5">>

HeurDocs == Docs \cup { doc_repeat, doc_same_line, doc_times, doc_three, doc_long }

HeurBases == BaseValues \cup { [given |-> TRUE, t |-> 60] }

\* events.append(event) unless an event of that title is in the list
heur_append_unless_seen(evs, event) ==
    IF \E j \in 1..Len(evs) : evs[j].title = event.title THEN evs
    ELSE Append(evs, event)

\* events.append(event)
heur_append(evs, event) == Append(evs, event)

\* found = dateparser.search.search_dates(text, settings=settings, ...)
found == search_dates(text, base_date, now)

InitHeur ==
    /\ path = "heuristic"
    /\ api_key = "unset"
    /\ text \in HeurDocs
    /\ base_date \in HeurBases
    /\ now \in NowValues
    /\ pc = "scan"
    /\ idx = 1
    /\ tried = <<>>
    /\ attempt = [i \in ModelIx |-> "none"]
    /\ worker = [i \in ModelIx |-> "idle"]
    /\ cell = [i \in ModelIx |-> EmptyCell]
    /\ elapsed = 0
    /\ response = NoResponse
    /\ events = <<>>
    /\ outcome = "running"
    /\ NormIdle
    /\ BatchIdle
    /\ CreateIdle
    /\ RecurIdle
    /\ TimeoutIdle
    /\ FilesIdle

\* if not found: return events
HeurNoMatch ==
    /\ pc = "scan"
    /\ found = <<>>
    /\ pc' = "done"
    /\ outcome' = "returned"
    /\ UNCHANGED <<path, api_key, text, base_date, idx, tried, attempt, worker,
                   cell, elapsed, response, events, nvars, xvars>>

\* One iteration of: for match_text, dt in found
HeurEvent ==
    /\ pc = "scan"
    /\ idx \in 1..Len(found)
    /\ events' = heur_append(events, heuristic_event(text, found[idx]))
    /\ idx' = idx + 1
    /\ UNCHANGED <<path, api_key, text, base_date, pc, tried, attempt, worker,
                   cell, elapsed, response, outcome, nvars, xvars>>

\* return events, after the last match
HeurReturn ==
    /\ pc = "scan"
    /\ found # <<>>
    /\ idx > Len(found)
    /\ pc' = "done"
    /\ outcome' = "returned"
    /\ UNCHANGED <<path, api_key, text, base_date, idx, tried, attempt, worker,
                   cell, elapsed, response, events, nvars, xvars>>

NextHeur == HeurNoMatch \/ HeurEvent \/ HeurReturn

SpecHeur == InitHeur /\ [][NextHeur]_vars

\* The heuristic extractor has returned
HeurDone == path = "heuristic" /\ pc = "done" /\ outcome = "returned"

RECURSIVE match_positions(_, _)
match_positions(s, pos) ==
    IF next_phrase_pos(s, pos) = 0 THEN <<>>
    ELSE LET q == next_phrase_pos(s, pos)
         IN  <<q - 1>> \o
             match_positions(s, q + Len(longest_phrase(phrases_at(s, q)).txt))

\* The trimmed line of s that holds the 0-based position p
line_at(s, p) ==
    LET breaks_before == { i \in 1..p : s[i] = "\n" }
        breaks_after  == { i \in (p + 1)..Len(s) : s[i] = "\n" }
        first == IF breaks_before = {} THEN 1
                 ELSE 1 + CHOOSE i \in breaks_before :
                              \A j \in breaks_before : j <= i
        last  == IF breaks_after = {} THEN Len(s)
                 ELSE (CHOOSE i \in breaks_after :
                          \A j \in breaks_after : i <= j) - 1
    IN  str_strip(SubSeq(s, first, last))

\* The line of a match, replaced by its text before the first period when
\* it is longer than 140 characters
clipped_line_at(s, p) ==
    IF Len(line_at(s, p)) > TitleClip
    THEN str_before_period(line_at(s, p))
    ELSE line_at(s, p)

\* C18: for every match, title and description of its event are the
\* trimmed line in which that match occurs, clipped before the first period
\* when longer than 140 characters, also when the matched substring occurs
\* on several lines.
C18_TitleIsLineOfMatch ==
    HeurDone =>
        \A i \in 1..Len(events) :
            LET line == clipped_line_at(text, match_positions(text, 1)[i])
            IN  /\ events[i].title = JStr(line)
                /\ events[i].description = JStr(line)

---------------------------------------------------------------------------
(* A normalized event, serialized (app.py 278-290) and normalized again    *)

\* events_serialized.append({...}): what upload_file stores in the session
serialize_event(event) ==
    [ title       |-> event.title,
      start       |-> isoformat(event.start),
      end         |-> isoformat(event.end),
      description |-> dict_get(event.description, JStr(<<>>)),
      location    |-> dict_get(event.location, JStr(<<>>)),
      type        |-> dict_get(event.type, JStr(s_event)),
      all_day     |-> event.all_day,
      recurring   |-> dict_get(event.recurring, JFalse) ]

\* The serialized event as a candidate: start_text and end_text are the
\* serialized start and end, the other fields are copied
candidate_of(ser) ==
    [ type |-> ser.type, start_text |-> JStr(ser.start),
      end_text |-> JStr(ser.end), title |-> ser.title,
      description |-> ser.description, location |-> ser.location,
      recurring |-> ser.recurring ]

\* The loop body on the serialized event, at the same or a later time
Renormalize ==
    /\ norm_pc = "done"
    /\ norm_out # <<>>
    /\ \E nw \in NowValues :
          /\ nw >= now
          /\ now' = nw
          /\ again' = normalize_candidate(
                          candidate_of(serialize_event(norm_out[1])), nw)
    /\ norm_pc' = "again"
    /\ UNCHANGED <<cand, norm_out, pvars, batch_in, raw_i, batch_out,
                   events_to_create, create_i, sent, created_events, zvars>>

NextRound == Normalize \/ Renormalize

SpecRound == InitNorm /\ [][NextRound]_vars

\* C20: serializing a normalized event and normalizing it again as a
\* candidate (ISO start and end, same other fields) yields one event with
\* the same start, end, type, all_day and recurring flag.
C20_RenormalizeIsIdentity ==
    norm_pc = "again" =>
        /\ Len(again) = 1
        /\ again[1].start = norm_out[1].start
        /\ again[1].end = norm_out[1].end
        /\ again[1].type = norm_out[1].type
        /\ again[1].all_day = norm_out[1].all_day
        /\ again[1].recurring = norm_out[1].recurring

\* C20 witness: a timed event that ends two hours after its start on
\* March 5th at 14:00 was serialized and normalized again
C20_Witness ==
    /\ norm_pc = "again"
    /\ cand.end_text = JStr(s_2hours)
    /\ norm_out[1].start = 110
    /\ norm_out[1].end = 112
    /\ ~norm_out[1].all_day
    /\ Len(again) = 1

---------------------------------------------------------------------------
(* create_events (app.py 431-568): the loop over the selected events of    *)
(* the session, and create_google_event (calendar_utils.py 178-316)        *)

\* Most events selected in one request
MaxSel == 2

\* Candidates whose serialized events the session holds
CreateCandidates ==
    [ type : {JStr(s_event), JStr(s_task)},
      start_text : {JStr(s_mar5_2pm), JStr(s_mar5)},
      end_text : {JStr(s_2hours), JStr(s_0), JStr(s_3pm)},
      title : {JStr(s_Quiz), JStr(<<>>)},
      description : {JStr(s_Lab)}, location : {JNull}, recurring : {JFalse} ]

\* session['events']: what upload_file stored, on March 3rd 10:00
SessionEvents ==
    { serialize_event(normalize_candidate(c, 58)[1]) : c \in CreateCandidates }

Selections == UNION { [1..n -> SessionEvents] : n \in 0..MaxSel }

\* is_all_day = event_data.get('all_day', False) or event_type == 'task'
is_all_day_of(event_data) ==
    event_data.all_day \/ event_data.type = JStr(s_task)

\* if not is_all_day and start_dt >= end_dt: ... continue
range_skipped(event_data) ==
    /\ ~is_all_day_of(event_data)
    /\ fromisoformat(event_data.start) >= fromisoformat(event_data.end)

\* the first event with an invalid range ends the loop
after_range_skip_abort(i, n) == n + 1

\* continue (app.py 533): the loop goes on with the next selected event
after_range_skip(i, n) == i + 1

\* The event handed to create_google_event: datetimes for the ISO strings,
\* the end of an all-day event raised to its start
event_to_send(event_data) ==
    LET start_dt == fromisoformat(event_data.start)
        end_dt   == fromisoformat(event_data.end)
    IN  [ title   |-> event_data.title,
          start   |-> start_dt,
          end     |-> IF is_all_day_of(event_data) /\ end_dt < start_dt
                      THEN start_dt ELSE end_dt,
          all_day |-> event_data.all_day ]

\* create_google_event up to the call of the service: TRUE when it raises
\* ValueError (no title, or a timed event with start >= end)
google_event_rejected(event) ==
    \/ event.title.k # "str"
    \/ event.title.v = <<>>
    \/ ~event.all_day /\ event.start >= event.end

InitCreate ==
    /\ PipelineIdle
    /\ NormIdle
    /\ BatchIdle
    /\ now = 58
    /\ events_to_create \in Selections
    /\ create_i = 1
    /\ sent = {}
    /\ created_events = <<>>
    /\ RecurIdle
    /\ TimeoutIdle
    /\ FilesIdle

\* The range check of the loop skips the event
CreateSkipRange ==
    /\ create_i \in 1..Len(events_to_create)
    /\ range_skipped(events_to_create[create_i])
    /\ create_i' = after_range_skip(create_i, Len(events_to_create))
    /\ UNCHANGED <<events_to_create, sent, created_events, pvars, nvars,
                   again, batch_in, raw_i, batch_out, zvars>>

\* create_google_event raises before it calls the service; the loop's
\* except prints and continues
CreateRejected ==
    /\ create_i \in 1..Len(events_to_create)
    /\ ~range_skipped(events_to_create[create_i])
    /\ google_event_rejected(event_to_send(events_to_create[create_i]))
    /\ create_i' = create_i + 1
    /\ UNCHANGED <<events_to_create, sent, created_events, pvars, nvars,
                   again, batch_in, raw_i, batch_out, zvars>>

\* service.events().insert(...).execute() returns: the event is appended to
\* created_events
CreateInserted ==
    /\ create_i \in 1..Len(events_to_create)
    /\ ~range_skipped(events_to_create[create_i])
    /\ ~google_event_rejected(event_to_send(events_to_create[create_i]))
    /\ sent' = sent \cup {<<create_i, TRUE>>}
    /\ created_events' = Append(created_events, create_i)
    /\ create_i' = create_i + 1
    /\ UNCHANGED <<events_to_create, pvars, nvars, again, batch_in, raw_i,
                   batch_out, zvars>>

\* service.events().insert(...).execute() raises; the loop's except prints
\* and continues
CreateInsertFails ==
    /\ create_i \in 1..Len(events_to_create)
    /\ ~range_skipped(events_to_create[create_i])
    /\ ~google_event_rejected(event_to_send(events_to_create[create_i]))
    /\ sent' = sent \cup {<<create_i, FALSE>>}
    /\ create_i' = create_i + 1
    /\ UNCHANGED <<events_to_create, created_events, pvars, nvars, again,
                   batch_in, raw_i, batch_out, zvars>>

NextCreate ==
    \/ CreateSkipRange
    \/ CreateRejected
    \/ CreateInserted
    \/ CreateInsertFails

SpecCreate == InitCreate /\ [][NextCreate]_vars

\* The loop over events_to_create has ended
CreateDone == create_i > Len(events_to_create)

\* The selected event at position k is not all-day and has start >= end
BadRange(k) ==
    /\ ~is_all_day_of(events_to_create[k])
    /\ fromisoformat(events_to_create[k].start)
          >= fromisoformat(events_to_create[k].end)

\* The selected event at position k has a title
Titled(k) ==
    /\ events_to_create[k].title.k = "str"
    /\ events_to_create[k].title.v # <<>>

\* Position k reached the service's insert
SentAt(k) == <<k, TRUE>> \in sent \/ <<k, FALSE>> \in sent

\* Position k is in created_events
CreatedAt(k) == \E j \in 1..Len(created_events) : created_events[j] = k

\* C19: a selected event that is not all-day and has start >= end never
\* reaches the calendar service, at any point of the loop; when the loop
\* has ended, every other selected event that has a title has reached the
\* service, and is in created_events when the service accepted it.
C19_BadRangeSkippedOthersCreated ==
    /\ \A k \in 1..Len(events_to_create) :
          BadRange(k) => (~SentAt(k) /\ ~CreatedAt(k))
    /\ CreateDone =>
          \A k \in 1..Len(events_to_create) :
              (~BadRange(k) /\ Titled(k)) =>
                  /\ SentAt(k)
                  /\ <<k, TRUE>> \in sent => CreatedAt(k)

\* C19 witness: the first selected event is timed with its end before its
\* start, the second one is good and was created
C19_Witness ==
    /\ CreateDone
    /\ Len(events_to_create) = 2
    /\ BadRange(1)
    /\ ~SentAt(1)
    /\ ~BadRange(2) /\ Titled(2)
    /\ created_events = <<2>>

---------------------------------------------------------------------------
(* The reference date of the normalizer                                    *)

---------------------------------------------------------------------------
(* The one-hour default of the normalizer                                  *)

\* end_text is a string without any digit
NoDigit(v) == v.k = "str" /\ \A i \in 1..Len(v.v) : ~str_isdigit(v.v[i])

\* end_text is a string that is no sentinel, has no hour marker and is no
\* date or time
NoDateNoMarker(v) ==
    /\ v.k = "str"
    /\ v.v # s_0
    /\ str_lower(v.v) # s_none
    /\ ~has_hour_marker(v.v)
    /\ ~\E d \in DateTable : d.txt = v.v
    /\ ~is_iso(v.v)

\* The cases in which the end defaults to one hour after the start
OneHourDefault(c) ==
    \/ c.end_text = JAbsent
    \/ NoDigit(c.end_text) /\ has_hour_marker(c.end_text.v)
    \/ NoDateNoMarker(c.end_text)

\* C28: for a candidate of type event whose end_text is absent, or has an
\* hour marker but no number, or has no hour marker, is no sentinel and is
\* no date or time, the normalized event ends exactly one hour after its
\* start.
C28_DefaultIsOneHour ==
    ( /\ norm_pc = "done"
      /\ dict_get(cand.type, JStr(s_event)) = JStr(s_event)
      /\ OneHourDefault(cand) )
    => \A e \in NormEvents : e.end = e.start + 1

\* C28 witness: an event with end_text "hours" was normalized
C28_Witness ==
    /\ norm_pc = "done"
    /\ cand.type = JStr(s_event)
    /\ cand.end_text = JStr(s_hours)
    /\ Len(norm_out) = 1
    /\ norm_out[1].end = norm_out[1].start + 1

---------------------------------------------------------------------------
(* The recurrence rule of create_google_event (calendar_utils.py 252-313): *)
(* the weekdays of BYDAY, found in three stages                            *)

\* str.upper() on one character
upper_char(c) ==
    IF \E i \in 1..Len(LowerChars) : LowerChars[i] = c
    THEN UpperChars[CHOOSE i \in 1..Len(LowerChars) : LowerChars[i] = c]
    ELSE c

\* str.upper()
str_upper(s) == [i \in 1..Len(s) |-> upper_char(s[i])]

\* day_patterns, in the insertion order of the dict
day_patterns ==
    << [pattern |-> <<"M">>, day_code |-> "MO"],
       [pattern |-> <<"M","O","N">>, day_code |-> "MO"],
       [pattern |-> <<"M","O","N","D","A","Y">>, day_code |-> "MO"],
       [pattern |-> <<"T">>, day_code |-> "TU"],
       [pattern |-> <<"T","U","E">>, day_code |-> "TU"],
       [pattern |-> <<"T","U","E","S">>, day_code |-> "TU"],
       [pattern |-> <<"T","U","E","S","D","A","Y">>, day_code |-> "TU"],
       [pattern |-> <<"W">>, day_code |-> "WE"],
       [pattern |-> <<"W","E","D">>, day_code |-> "WE"],
       [pattern |-> <<"W","E","D","N","E","S","D","A","Y">>, day_code |-> "WE"],
       [pattern |-> <<"R">>, day_code |-> "TH"],
       [pattern |-> <<"T","H">>, day_code |-> "TH"],
       [pattern |-> <<"T","H","U","R">>, day_code |-> "TH"],
       [pattern |-> <<"T","H","U","R","S">>, day_code |-> "TH"],
       [pattern |-> <<"T","H","U","R","S","D","A","Y">>, day_code |-> "TH"],
       [pattern |-> <<"F">>, day_code |-> "FR"],
       [pattern |-> <<"F","R","I">>, day_code |-> "FR"],
       [pattern |-> <<"F","R","I","D","A","Y">>, day_code |-> "FR"],
       [pattern |-> <<"S","A">>, day_code |-> "SA"],
       [pattern |-> <<"S","A","T">>, day_code |-> "SA"],
       [pattern |-> <<"S","A","T","U","R","D","A","Y">>, day_code |-> "SA"],
       [pattern |-> <<"S","U">>, day_code |-> "SU"],
       [pattern |-> <<"S","U","N">>, day_code |-> "SU"],
       [pattern |-> <<"S","U","N","D","A","Y">>, day_code |-> "SU"] >>

\* all(c in 'MTWRF' for c in days_str)
compact_chars == {"M", "T", "W", "R", "F"}

\* len(days_str) <= 5 and all(c in 'MTWRF' for c in days_str)
compact_applies(d) ==
    Len(d) <= 5 /\ \A i \in 1..Len(d) : d[i] \in compact_chars

\* day_patterns[char]
day_code_of(pat) ==
    day_patterns[CHOOSE k \in 1..Len(day_patterns) :
                    day_patterns[k].pattern = pat].day_code

\* found_days.append(day_code), also when the code is in the list
add_day_always(fd, code) == Append(fd, code)

\* if day_code not in found_days: found_days.append(day_code)
add_day(fd, code) ==
    IF \E i \in 1..Len(fd) : fd[i] = code THEN fd ELSE Append(fd, code)

\* for char in days_str: ... over the first n characters
RECURSIVE compact_days(_, _)
compact_days(d, n) ==
    IF n = 0 THEN <<>>
    ELSE add_day(compact_days(d, n - 1), day_code_of(<<d[n]>>))

\* for pattern, day_code in day_patterns.items(): over the first n entries
\*     if len(pattern) > 2 and pattern in days_str: ...
RECURSIVE word_days(_, _)
word_days(d, n) ==
    IF n = 0 THEN <<>>
    ELSE IF Len(day_patterns[n].pattern) > 2
              /\ str_contains(d, day_patterns[n].pattern)
         THEN add_day(word_days(d, n - 1), day_patterns[n].day_code)
         ELSE word_days(d, n - 1)

\* start_dt.weekday(): Monday is 0; instant 0 (2026-03-01) is a Sunday
weekday(t) == ((t \div 24) + 6) % 7

days_map == << "MO", "TU", "WE", "TH", "FR", "SA", "SU" >>

\* the fallback leaves the list as it is
fallback_keeps(fd, t) == fd

\* if not found_days: found_days = [days_map[weekday]]
fallback_days(fd, t) ==
    IF fd = <<>> THEN << days_map[weekday(t) + 1] >> ELSE fd

d_MWF == <<"M","W","F">>
d_mwf == <<"m","w","f">>
d_TR == <<"T","R">>
d_TTH == <<"T","T","H">>
d_MMWWF == <<"M","M","W","W","F">>
d_empty == <<>>
d_Lab_TTH == <<"L","a","b"," ","T","T","H">>
d_Friday_Monday == <<"F","r","i","d","a","y"," ","M","o","n","d","a","y">>
d_MONTHLY == <<"M","O","N","T","H","L","Y">>
d_WEDDING == <<"W","E","D","D","I","N","G">>
d_Mon_Wed == <<"M","o","n"," ","W","e","d">>
d_Tues_Thurs == <<"T","u","e","s"," ","T","h","u","r","s">>
d_Lecture_MWF == <<"L","e","c","t","u","r","e"," ","M","W","F">>
d_SATISFY == <<"S","A","T","I","S","F","Y">>
d_Monday_Mon == <<"M","o","n","d","a","y"," ","M","o","n">>
d_MTWRF == <<"M","T","W","R","F">>
d_MTWRFM == <<"M","T","W","R","F","M">>
d_Sunday == <<"S","u","n","d","a","y">>
d_Lab == <<"L","a","b">>

Descriptions ==
    { d_MWF, d_mwf, d_TR, d_TTH, d_MMWWF,
      d_empty, d_Lab_TTH, d_Friday_Monday, d_MONTHLY, d_WEDDING,
      d_Mon_Wed, d_Tues_Thurs, d_Lecture_MWF, d_SATISFY, d_Monday_Mon,
      d_MTWRF, d_MTWRFM, d_Sunday, d_Lab }

\* Starts of the recurring event: 10:00 on each day of the first week of
\* March 2026
RecurStarts == { 24 * d + 10 : d \in 0..6 }

InitRecur ==
    /\ PipelineIdle
    /\ NormIdle
    /\ BatchIdle
    /\ CreateIdle
    /\ TimeoutIdle
    /\ FilesIdle
    /\ now = 58
    /\ \E d \in Descriptions : days_str = str_upper(d)
    /\ rec_start \in RecurStarts
    /\ found_days = <<>>
    /\ rec_pc = "compact"

\* The compact rule
CompactRule ==
    /\ rec_pc = "compact"
    /\ found_days' = IF compact_applies(days_str)
                     THEN compact_days(days_str, Len(days_str))
                     ELSE found_days
    /\ rec_pc' = "words"
    /\ UNCHANGED <<days_str, rec_start, timeout_arg, waited, disk, session,
                   file_content, pvars, nvars, again, batch_in, raw_i,
                   batch_out, events_to_create, create_i, sent, created_events>>

\* The word rule, when the compact rule found nothing
WordRule ==
    /\ rec_pc = "words"
    /\ found_days' = IF found_days = <<>>
                     THEN word_days(days_str, Len(day_patterns))
                     ELSE found_days
    /\ rec_pc' = "fallback"
    /\ UNCHANGED <<days_str, rec_start, timeout_arg, waited, disk, session,
                   file_content, pvars, nvars, again, batch_in, raw_i,
                   batch_out, events_to_create, create_i, sent, created_events>>

\* The fallback to the weekday of the start; byday_str is then built
FallbackRule ==
    /\ rec_pc = "fallback"
    /\ found_days' = fallback_days(found_days, rec_start)
    /\ rec_pc' = "rule"
    /\ UNCHANGED <<days_str, rec_start, timeout_arg, waited, disk, session,
                   file_content, pvars, nvars, again, batch_in, raw_i,
                   batch_out, events_to_create, create_i, sent, created_events>>

NextRecur == CompactRule \/ WordRule \/ FallbackRule

SpecRecur == InitRecur /\ [][NextRecur]_vars

\* The weekday code of a letter of the compact form
CompactCode(c) ==
    CASE c = "M" -> "MO" [] c = "T" -> "TU" [] c = "W" -> "WE"
      [] c = "R" -> "TH" [] c = "F" -> "FR"

\* The codes of the letters of d, each letter at its first occurrence only
FirstLetters(d) ==
    LET q == [ i \in 1..Len(d) |->
                 [ c |-> d[i], first |-> \A j \in 1..(i - 1) : d[j] # d[i] ] ]
        isFirst(x) == x.first
        kept == SelectSeq(q, isFirst)
    IN  [ i \in 1..Len(kept) |-> CompactCode(kept[i].c) ]

\* days_str is a compact code: one to five letters of M, T, W, R, F
IsCompact(d) ==
    /\ Len(d) \in 1..5
    /\ \A i \in 1..Len(d) : d[i] \in {"M", "T", "W", "R", "F"}

\* C22: for a description of one to five letters of M, T, W, R, F the
\* weekdays of the rule are the codes of its letters (M->MO, T->TU, W->WE,
\* R->TH, F->FR) in the order of the letters, no code twice.
C22_CompactLetterByLetter ==
    (rec_pc = "rule" /\ IsCompact(days_str)) =>
        found_days = FirstLetters(days_str)

\* C22 witness: "MMWWF" gave MO, WE, FR
C22_Witness ==
    /\ rec_pc = "rule"
    /\ days_str = d_MMWWF
    /\ found_days = <<"MO", "WE", "FR">>

\* A letter of the alphabet
IsLetter(c) == \E i \in 1..Len(UpperChars) : UpperChars[i] = c

\* pat occurs in d as a whole word: no letter right before or right after
WholeWord(d, pat) ==
    \E i \in 0..(Len(d) - Len(pat)) :
        /\ \A j \in 1..Len(pat) : d[i + j] = pat[j]
        /\ i = 0 \/ ~IsLetter(d[i])
        /\ i + Len(pat) = Len(d) \/ ~IsLetter(d[i + Len(pat) + 1])

\* The weekday names and abbreviations of more than two characters
WordPatterns ==
    { day_patterns[k] : k \in { n \in 1..Len(day_patterns) :
                                  Len(day_patterns[n].pattern) > 2 } }

\* C23: after the word rule, when the compact rule did not apply, every
\* weekday code found comes from a weekday name or abbreviation (longer
\* than 2 characters) that stands in the description as a whole word.
C23_WholeWordsOnly ==
    (rec_pc = "fallback" /\ ~IsCompact(days_str)) =>
        \A i \in 1..Len(found_days) :
            \E w \in WordPatterns :
                w.day_code = found_days[i] /\ WholeWord(days_str, w.pattern)

\* Where the weekday of code is first seen in d (0-based), Len(d) if never
FirstSeen(d, code) ==
    LET at == { str_find(d, w.pattern, 0) :
                  w \in { x \in WordPatterns : x.day_code = code } } \ {-1}
    IN  IF at = {} THEN Len(d) ELSE CHOOSE a \in at : \A b \in at : a <= b

\* C24: after the word rule, when the compact rule did not apply, the
\* weekday codes are listed once each, in the order in which their
\* weekdays are first seen in the description.
C24_FirstSeenOrder ==
    (rec_pc = "fallback" /\ ~IsCompact(days_str)) =>
        \A i, j \in 1..Len(found_days) :
            i < j => /\ found_days[i] # found_days[j]
                     /\ FirstSeen(days_str, found_days[i])
                           < FirstSeen(days_str, found_days[j])

\* The description holds no weekday name or abbreviation of more than two
\* characters, not even inside a word
NoWeekdayWord(d) == \A w \in WordPatterns : ~str_contains(d, w.pattern)

\* The weekday code of the date of the instant t: 2026-03-01 is a Sunday
StartDayCode(t) ==
    << "SU", "MO", "TU", "WE", "TH", "FR", "SA" >>[((t \div 24) % 7) + 1]

C27_TTHIsTuesdayThursday ==
    (rec_pc = "rule" /\ days_str = d_TTH) => found_days = <<"TU", "TH">>

---------------------------------------------------------------------------
(* timeout_handler(func, timeout_seconds) (image_processor.py 24-55) for   *)
(* any timeout_seconds, with the time the caller spends waiting            *)

\* Values of the argument timeout_seconds
TimeoutValues == {10, 30, 45, 60, 90}

\* After how many seconds of a join the worker thread may end
JoinDelays == { d \in 1..check_interval : d % 5 = 0 }

InitTimeout ==
    /\ path = "image"
    /\ api_key = "set"
    /\ text = doc_no_date
    /\ base_date = NoBase
    /\ pc = "poll"
    /\ idx = 1
    /\ tried = <<>>
    /\ attempt = [i \in ModelIx |-> "none"]
    /\ worker = [i \in ModelIx |-> IF i = 1 THEN "running" ELSE "idle"]
    /\ cell = [i \in ModelIx |-> EmptyCell]
    /\ elapsed = 0
    /\ response = NoResponse
    /\ events = <<>>
    /\ outcome = "running"
    /\ now = 58
    /\ NormIdle
    /\ BatchIdle
    /\ CreateIdle
    /\ RecurIdle
    /\ FilesIdle
    /\ timeout_arg \in TimeoutValues
    /\ waited = 0

\* The loop's test: while thread.is_alive() and elapsed < timeout_seconds
polling == pc = "poll" /\ worker[1] = "running" /\ elapsed < timeout_arg

\* thread.join(check_interval) returns after d seconds because the worker
\* ended, with a result or with an exception; elapsed += check_interval
JoinWorkerEnds ==
    /\ polling
    /\ \E d \in JoinDelays, st \in {"done", "failed"} :
          /\ waited' = waited + d
          /\ worker' = [worker EXCEPT ![1] = st]
    /\ elapsed' = elapsed + check_interval
    /\ UNCHANGED <<path, api_key, text, base_date, pc, idx, tried, attempt,
                   cell, response, events, outcome, nvars, again, batch_in,
                   raw_i, batch_out, events_to_create, create_i, sent,
                   created_events, days_str, rec_start, found_days, rec_pc,
                   timeout_arg, disk, session, file_content>>

\* thread.join(check_interval) returns after check_interval seconds, the
\* worker still running; elapsed += check_interval
JoinExpires ==
    /\ polling
    /\ waited' = waited + check_interval
    /\ elapsed' = elapsed + check_interval
    /\ UNCHANGED <<path, api_key, text, base_date, pc, idx, tried, attempt,
                   worker, cell, response, events, outcome, nvars, again,
                   batch_in, raw_i, batch_out, events_to_create, create_i,
                   sent, created_events, days_str, rec_start, found_days,
                   rec_pc, timeout_arg, disk, session, file_content>>

\* After the loop: raise TimeoutError, raise the worker's exception, or
\* return the result
HandlerReturns ==
    /\ pc = "poll"
    /\ ~polling
    /\ pc' = IF worker[1] = "running" THEN "raised_timeout"
             ELSE IF worker[1] = "failed" THEN "raised_worker"
             ELSE "returned"
    /\ UNCHANGED <<path, api_key, text, base_date, idx, tried, attempt,
                   worker, cell, elapsed, response, events, outcome, nvars,
                   xvars>>

NextTimeout == JoinWorkerEnds \/ JoinExpires \/ HandlerReturns

SpecTimeout == InitTimeout /\ [][NextTimeout]_vars

\* C26: timeout_handler is back at its caller, with the result, the
\* worker's exception or a timeout error, no later than timeout_seconds
\* after it started waiting.
C26_BackWithinDeadline ==
    pc \in {"returned", "raised_worker", "raised_timeout"} =>
        waited <= timeout_arg

---------------------------------------------------------------------------
(* Abandoned attempts of the image path                                    *)

\* C30: on the image path, the response that is parsed is the one returned
\* by the attempt that ended with a response, all earlier attempts having
\* failed; it holds no array of another identifier, and the events
\* returned carry that identifier's title, whenever the abandoned worker
\* threads finish.
C30_ResponseFromCompletedAttempt ==
    (path = "image" /\ response # NoResponse) =>
        \E k \in ModelIx :
            /\ attempt[k] = "response"
            /\ \A j \in 1..(k - 1) : Failed(j)
            /\ response = cell[k].resp
            /\ \A j \in ModelIx \ {k} :
                  \A n \in 1..Len(response.toks) :
                      response.toks[n] # ArrayTokens[j]
            /\ (pc = "done" /\ outcome = "returned") =>
                  \A n \in 1..Len(events) : events[n].title = title_of_model(k)

\* C30 witness: the first attempt timed out and its worker finished later
\* with a response; the second attempt's response gave the events
C30_Witness ==
    /\ path = "image"
    /\ pc = "done"
    /\ attempt[1] = "timeout"
    /\ worker[1] = "finished"
    /\ cell[1].st = "result"
    /\ attempt[2] = "response"
    /\ outcome = "returned"
    /\ Len(events) = 2

---------------------------------------------------------------------------
(* Uploads and create-events requests of several browser sessions          *)
(* (app.py 199-312, 431-500): one upload folder, one cookie session each   *)

\* Uploads made by one session
MaxUploads == 2

Sessions  == {"s1", "s2"}

\* secure_filename(file.filename)
FileNames == {"a.txt", "b.txt"}

\* The content of the n-th file uploaded by session s
Content(s, n) == [by |-> s, n |-> n]

NoFile == [by |-> "nobody", n |-> 0]

\* create_events of the session has not read a file since its last upload
Unread == [by |-> "unread", n |-> 0]

\* A session before its first upload: filename and events are the keys of
\* the cookie session; saved is the local variable filename of an upload
\* request that has saved its file and not answered yet; uploads counts the
\* uploads of the session and latest is the content of the last one
NewSession ==
    [ filename |-> "", events |-> FALSE, saved |-> "", uploads |-> 0,
      latest |-> NoFile ]

InitFiles ==
    /\ PipelineIdle
    /\ NormIdle
    /\ BatchIdle
    /\ CreateIdle
    /\ RecurIdle
    /\ TimeoutIdle
    /\ now = 58
    /\ disk = [f \in FileNames |-> NoFile]
    /\ session = [s \in Sessions |-> NewSession]
    /\ file_content = [s \in Sessions |-> Unread]

\* upload_file up to file.save(filepath): the session's events and filename
\* are popped and the file is written under its name in the upload folder
UploadSave(s, f) ==
    /\ session[s].saved = ""
    /\ session[s].uploads < MaxUploads
    /\ disk' = [disk EXCEPT ![f] = Content(s, session[s].uploads + 1)]
    /\ session' = [session EXCEPT ![s] =
                      [ filename |-> "", events |-> FALSE, saved |-> f,
                        uploads |-> session[s].uploads + 1,
                        latest |-> Content(s, session[s].uploads + 1) ]]
    /\ file_content' = [file_content EXCEPT ![s] = Unread]
    /\ UNCHANGED <<pvars, nvars, again, batch_in, raw_i, batch_out,
                   events_to_create, create_i, sent, created_events,
                   days_str, rec_start, found_days, rec_pc, timeout_arg,
                   waited>>

\* upload_file after the extraction: session['events'] and
\* session['filename'] are stored and the request is answered
UploadStore(s) ==
    /\ session[s].saved # ""
    /\ session' = [session EXCEPT ![s].filename = session[s].saved,
                                  ![s].events = TRUE,
                                  ![s].saved = ""]
    /\ UNCHANGED <<disk, file_content, pvars, nvars, again, batch_in, raw_i,
                   batch_out, events_to_create, create_i, sent,
                   created_events, days_str, rec_start, found_days, rec_pc,
                   timeout_arg, waited>>

\* upload_file answers with an error after the file was saved
UploadFails(s) ==
    /\ session[s].saved # ""
    /\ session' = [session EXCEPT ![s].saved = ""]
    /\ UNCHANGED <<disk, file_content, pvars, nvars, again, batch_in, raw_i,
                   batch_out, events_to_create, create_i, sent,
                   created_events, days_str, rec_start, found_days, rec_pc,
                   timeout_arg, waited>>

\* create_events of session s re-reads the file named by session['filename']
CreateRead(s) ==
    /\ session[s].saved = ""
    /\ session[s].events
    /\ file_content' =
          [file_content EXCEPT ![s] =
              IF session[s].filename # "" /\ disk[session[s].filename] # NoFile
              THEN disk[session[s].filename] ELSE NoFile]
    /\ UNCHANGED <<disk, session, pvars, nvars, again, batch_in, raw_i,
                   batch_out, events_to_create, create_i, sent,
                   created_events, days_str, rec_start, found_days, rec_pc,
                   timeout_arg, waited>>

NextFiles ==
    \/ \E s \in Sessions, f \in FileNames : UploadSave(s, f)
    \/ \E s \in Sessions : UploadStore(s)
    \/ \E s \in Sessions : UploadFails(s)
    \/ \E s \in Sessions : CreateRead(s)

SpecFiles == InitFiles /\ [][NextFiles]_vars

\* C29: what create_events of a session has read from disk is the file
\* most recently uploaded in that session, whatever the other sessions
\* uploaded in between.
C29_ReadsOwnLatestUpload ==
    \A s \in Sessions :
        file_content[s] # Unread => file_content[s] = session[s].latest
====
